---------------------------- MODULE Spec2Model ----------------------------
(***************************************************************************)
(* Model of the analytics service of the repository:                       *)
(*   src/src/services/analytics_service.py  (AnalyticsService)             *)
(*   src/src/models/data_models.py          (pydantic record schemas)      *)
(*                                                                         *)
(* Python floats are modelled as exact rationals <<n, d>> (d > 0, lowest   *)
(* terms; <<1, 0>> is float('inf')), and where the rounding of a float     *)
(* operation decides the outcome as IEEE 754 doubles <<"f64", m, e>>.      *)
(* Optional[T] is modelled as a sequence of length 0 (None) or 1.          *)
(* Strings that the code inspects character by character (the date, the    *)
(* record id) are sequences of one-character strings.                      *)
(*                                                                         *)
(* Specifications: Spec (compute_daily_summary), SpecScore                 *)
(* (calculate_sleep_quality_score), SpecStore (store_daily_summary and     *)
(* get_daily_summaries against a DynamoDB table), SpecRange                *)
(* (get_date_range_for_summary in several local time zones).               *)
(***************************************************************************)
EXTENDS Integers, Sequences, FiniteSets, TLC

VARIABLES
    user_id,             \* argument user_id of compute_daily_summary
    date,                \* argument date of compute_daily_summary
    sleep_data,          \* Optional[SleepData] argument
    recovery_data,       \* Optional[RecoveryData] argument
    cycle_data,          \* Optional[CycleData] argument
    physiological_data,  \* Optional[List[PhysiologicalData]] argument
    now,                 \* what time.time() returns during the call
    score,               \* Optional: value returned by calculate_sleep_quality_score
    summary,             \* Optional: DailySummary returned by compute_daily_summary
    raised,              \* "" or the exception the last call propagated
    dynamodb_client,     \* self.dynamodb_client is configured (not None)
    table,               \* the items the backend holds in daily_summaries
    call,                \* the last storage call: its arguments, and whether
                         \* the backend carried out what it was asked
    store_returned,      \* Optional: value returned by store_daily_summary
    get_returned,        \* Optional: list returned by get_daily_summaries
    sent,                \* the backend requests the last call issued
    tz,                  \* the local time zone of the process
    date_range           \* Optional: pair returned by get_date_range_for_summary

\* the state of the storage side and of the date utility
store_vars == <<dynamodb_client, table, call, store_returned, get_returned,
                sent, tz, date_range>>

vars == <<user_id, date, sleep_data, recovery_data, cycle_data,
          physiological_data, now, score, summary, raised, store_vars>>

---------------------------------------------------------------------------
(* Optional values *)

None == <<>>

Some(x) == <<x>>

---------------------------------------------------------------------------
(* Exact rational arithmetic standing for Python float arithmetic *)

RECURSIVE GCD(_, _)
GCD(a, b) == IF b = 0 THEN a ELSE GCD(b, a % b)

Abs(i) == IF i < 0 THEN -i ELSE i

Norm(n, d) ==
    LET g == GCD(Abs(n), d) IN <<n \div g, d \div g>>

RatOf(i) == <<i, 1>>

RatAdd(a, b) == Norm(a[1] * b[2] + b[1] * a[2], a[2] * b[2])

RatMul(a, b) == Norm(a[1] * b[1], a[2] * b[2])

\* a / b for b > 0
RatDiv(a, b) == Norm(a[1] * b[2], a[2] * b[1])

RatLE(a, b) == a[1] * b[2] <= b[1] * a[2]

RatLT(a, b) == a[1] * b[2] < b[1] * a[2]

\* Python min(a, b) / max(a, b): the first argument unless the second is
\* strictly smaller / larger
RatMin(a, b) == IF RatLT(b, a) THEN b ELSE a

RatMax(a, b) == IF RatLT(a, b) THEN b ELSE a

\* Python 3 round(x) with one argument: nearest integer, ties to even
round(x) ==
    LET f == x[1] \div x[2]
        r == x[1] % x[2]
    IN  IF 2 * r < x[2] THEN f
        ELSE IF 2 * r > x[2] THEN f + 1
        ELSE IF f % 2 = 0 THEN f ELSE f + 1

---------------------------------------------------------------------------
(* calculate_sleep_quality_score *)

\* 1000 * 60 * 60 at analytics_service.py:49 and :114
MsPerHour == 1000 * 60 * 60

duration_hours(sd) == RatDiv(sd.duration, RatOf(MsPerHour))

duration_score_strict(sd) ==
    LET h == duration_hours(sd) IN
    IF RatLT(RatOf(7), h) /\ RatLT(h, RatOf(9)) THEN 40
    ELSE IF RatLE(RatOf(6), h) /\ RatLT(h, RatOf(7)) THEN 30
    ELSE IF RatLE(RatOf(5), h) /\ RatLT(h, RatOf(6)) THEN 20
    ELSE IF RatLT(RatOf(9), h) /\ RatLE(h, RatOf(10)) THEN 30
    ELSE 10

duration_score(sd) ==
    LET h == duration_hours(sd) IN
    IF RatLE(RatOf(7), h) /\ RatLE(h, RatOf(9)) THEN 40
    ELSE IF RatLE(RatOf(6), h) /\ RatLT(h, RatOf(7)) THEN 30
    ELSE IF RatLE(RatOf(5), h) /\ RatLT(h, RatOf(6)) THEN 20
    ELSE IF RatLT(RatOf(9), h) /\ RatLE(h, RatOf(10)) THEN 30
    ELSE 10

efficiency(sd) ==
    IF RatLT(RatOf(0), sd.duration)
    THEN RatDiv(sd.qualityDuration, sd.duration)
    ELSE RatOf(0)

efficiency_score(sd) == RatMin(RatOf(40), RatMul(efficiency(sd), RatOf(40)))

disturbance_score_unfloored(sd) == 20 - sd.disturbanceCount * 2

disturbance_score(sd) ==
    IF 20 - sd.disturbanceCount * 2 > 0 THEN 20 - sd.disturbanceCount * 2 ELSE 0

total_score(sd) ==
    RatAdd(RatAdd(RatOf(duration_score(sd)), efficiency_score(sd)),
           RatOf(disturbance_score(sd)))

clamp_score(t) == RatMin(RatOf(100), RatMax(RatOf(0), t))

calculate_sleep_quality_score_unrounded(sd) == clamp_score(total_score(sd))

calculate_sleep_quality_score_truncated(sd) ==
    LET c == clamp_score(total_score(sd)) IN RatOf(c[1] \div c[2])

calculate_sleep_quality_score(sd) == RatOf(round(clamp_score(total_score(sd))))

---------------------------------------------------------------------------
(* datetime.strptime(v, '%Y-%m-%d'), as DailySummary.validate_date_format *)
(* calls it.  The format compiles to the regular expression                *)
(*   (?P<Y>\d\d\d\d)-(?P<m>1[0-2]|0[1-9]|[1-9])-                           *)
(*   (?P<d>3[0-1]|[1-2]\d|0[1-9]|[1-9]| [1-9])                             *)
(* matched at the start of the string; text left over after the match and  *)
(* a day the month does not have are ValueErrors as well.                  *)

DigitVal ==
    "0" :> 0 @@ "1" :> 1 @@ "2" :> 2 @@ "3" :> 3 @@ "4" :> 4 @@
    "5" :> 5 @@ "6" :> 6 @@ "7" :> 7 @@ "8" :> 8 @@ "9" :> 9

IsDigit(c) == c \in DOMAIN DigitVal

\* the character at position i, "" past the end
At(s, i) == IF i >= 1 /\ i <= Len(s) THEN s[i] ELSE ""

InRange(c, lo, hi) == IsDigit(c) /\ DigitVal[c] >= lo /\ DigitVal[c] <= hi

\* %Y : \d\d\d\d
re_Y(s, p) == \A i \in p..(p + 3) : IsDigit(At(s, i))

\* %m : 1[0-2]|0[1-9]|[1-9] -- lengths of the alternatives that match at p,
\* in the order the regex engine tries them
re_m(s, p) ==
    (IF At(s, p) = "1" /\ InRange(At(s, p + 1), 0, 2) THEN <<2>> ELSE <<>>)
    \o (IF At(s, p) = "0" /\ InRange(At(s, p + 1), 1, 9) THEN <<2>> ELSE <<>>)
    \o (IF InRange(At(s, p), 1, 9) THEN <<1>> ELSE <<>>)

\* %d : 3[0-1]|[1-2]\d|0[1-9]|[1-9]| [1-9] -- likewise
re_d(s, p) ==
    (IF At(s, p) = "3" /\ InRange(At(s, p + 1), 0, 1) THEN <<2>> ELSE <<>>)
    \o (IF InRange(At(s, p), 1, 2) /\ IsDigit(At(s, p + 1)) THEN <<2>> ELSE <<>>)
    \o (IF At(s, p) = "0" /\ InRange(At(s, p + 1), 1, 9) THEN <<2>> ELSE <<>>)
    \o (IF InRange(At(s, p), 1, 9) THEN <<1>> ELSE <<>>)
    \o (IF At(s, p) = " " /\ InRange(At(s, p + 1), 1, 9) THEN <<2>> ELSE <<>>)

\* int() of the digits of s[p .. p+n-1]; a leading blank is skipped
RECURSIVE IntOf(_, _, _)
IntOf(s, p, n) ==
    IF n = 0 THEN 0
    ELSE IntOf(s, p, n - 1) * 10
         + (IF IsDigit(At(s, p + n - 1)) THEN DigitVal[At(s, p + n - 1)] ELSE 0)

IsLeap(y) == y % 4 = 0 /\ (y % 100 # 0 \/ y % 400 = 0)

DaysInMonth(y, m) ==
    IF m = 2 THEN (IF IsLeap(y) THEN 29 ELSE 28)
    ELSE IF m \in {4, 6, 9, 11} THEN 30 ELSE 31

\* Some(<<year, month, day>>), or None where strptime raises ValueError
strptime(s) ==
    LET ms == SelectSeq(re_m(s, 6),
                        LAMBDA n : At(s, 6 + n) = "-" /\ re_d(s, 7 + n) # <<>>)
    IN  IF ~(re_Y(s, 1) /\ At(s, 5) = "-") \/ ms = <<>>
        THEN None                       \* does not match format
        ELSE LET ml == ms[1]
                 dl == re_d(s, 7 + ml)[1]
                 y  == IntOf(s, 1, 4)
                 m  == IntOf(s, 6, ml)
                 d  == IntOf(s, 7 + ml, dl)
             IN  IF Len(s) # 6 + ml + dl
                 THEN None              \* unconverted data remains
                 ELSE IF y < 1 \/ d > DaysInMonth(y, m)
                 THEN None              \* year / day is out of range
                 ELSE Some(<<y, m, d>>)

\* DailySummary.validate_date_format: TRUE where it returns v, FALSE where
\* it raises ValueError('Date must be in YYYY-MM-DD format')
validate_date_format(v) == strptime(v) # None

---------------------------------------------------------------------------
(* compute_daily_summary *)

\* truthiness of an Optional[BaseModel] argument ("if recovery_data"): a
\* pydantic model defines neither __bool__ nor __len__, so only None is false
Truthy(opt) == opt # None

\* truthiness of an Optional[List] argument ("if physiological_data")
TruthyList(opt) == opt # None /\ Len(opt[1]) > 0

\* truthiness of an Optional[float] ("if p.heartRateVariability")
TruthyFloat(opt) == opt # None /\ opt[1][1] # 0

completeness_no_len(sd, rd, cd, pd) ==
    [hasSleep         |-> sd # None,
     hasRecovery      |-> rd # None,
     hasWorkout       |-> FALSE,
     hasCycle         |-> cd # None,
     hasPhysiological |-> pd # None]

completeness_workout(sd, rd, cd, pd) ==
    [hasSleep         |-> sd # None,
     hasRecovery      |-> rd # None,
     hasWorkout       |-> sd # None,
     hasCycle         |-> cd # None,
     hasPhysiological |-> pd # None /\ Len(pd[1]) > 0]

completeness(sd, rd, cd, pd) ==
    [hasSleep         |-> sd # None,
     hasRecovery      |-> rd # None,
     hasWorkout       |-> FALSE,
     hasCycle         |-> cd # None,
     hasPhysiological |-> pd # None /\ Len(pd[1]) > 0]

recovery_score_falsy_zero(rd) ==
    IF Truthy(rd) /\ rd[1].recoveryScore[1] # 0
    THEN Some(rd[1].recoveryScore)
    ELSE None

recovery_score(rd) == IF Truthy(rd) THEN Some(rd[1].recoveryScore) ELSE None

sleep_quality_score(sd) ==
    IF Truthy(sd) THEN Some(calculate_sleep_quality_score(sd[1])) ELSE None

sleep_duration_falsy_zero(sd) ==
    IF Truthy(sd) /\ sd[1].duration[1] # 0
    THEN Some(RatDiv(sd[1].duration, RatOf(MsPerHour)))
    ELSE None

sleep_duration(sd) ==
    IF Truthy(sd) THEN Some(RatDiv(sd[1].duration, RatOf(MsPerHour))) ELSE None

total_strain(cd) == IF Truthy(cd) THEN Some(cd[1].strain) ELSE None

\* sum(values) over a list of floats
RECURSIVE sum(_)
sum(values) ==
    IF values = <<>> THEN RatOf(0) ELSE RatAdd(values[1], sum(Tail(values)))

\* [p.heartRateVariability for p in physiological_data if p.heartRateVariability]
hrv_values(l) ==
    LET kept == SelectSeq(l, LAMBDA p : TruthyFloat(p.heartRateVariability))
    IN  [i \in 1..Len(kept) |-> kept[i].heartRateVariability[1]]

average_hrv_all_samples(pd) ==
    IF TruthyList(pd) /\ hrv_values(pd[1]) # <<>>
    THEN Some(RatDiv(sum(hrv_values(pd[1])), RatOf(Len(pd[1]))))
    ELSE None

average_hrv(pd) ==
    IF TruthyList(pd) /\ hrv_values(pd[1]) # <<>>
    THEN Some(RatDiv(sum(hrv_values(pd[1])), RatOf(Len(hrv_values(pd[1])))))
    ELSE None

resting_heart_rate(rd) == IF Truthy(rd) THEN Some(rd[1].restingHeartRate) ELSE None

\* [p.respiratoryRate for p in physiological_data]
resp_values(l) == [i \in 1..Len(l) |-> l[i].respiratoryRate]

respiratory_rate(pd) ==
    IF TruthyList(pd) /\ resp_values(pd[1]) # <<>>
    THEN Some(RatDiv(sum(resp_values(pd[1])), RatOf(Len(resp_values(pd[1])))))
    ELSE None

\* f"summary#{date}"
SummaryPrefix == <<"s", "u", "m", "m", "a", "r", "y", "#">>

\* Field(ge=lo, le=hi) on an Optional[float] field
FieldGeLe(opt, lo, hi) ==
    opt = None \/ (RatLE(RatOf(lo), opt[1]) /\ RatLE(opt[1], RatOf(hi)))

\* Field(ge=lo)
FieldGe(opt, lo) == opt = None \/ RatLE(RatOf(lo), opt[1])

\* Field(gt=lo)
FieldGt(opt, lo) == opt = None \/ RatLT(RatOf(lo), opt[1])

\* DailySummary(**fields): the declared field constraints and the date
\* validator; pydantic raises ValidationError when one of them fails
DailySummary(fields) ==
    IF /\ FieldGeLe(fields.recoveryScore, 0, 100)
       /\ FieldGeLe(fields.sleepQualityScore, 0, 100)
       /\ FieldGeLe(fields.totalStrain, 0, 21)
       /\ FieldGe(fields.sleepDuration, 0)
       /\ FieldGt(fields.averageHRV, 0)
       /\ FieldGt(fields.restingHeartRate, 0)
       /\ FieldGt(fields.respiratoryRate, 0)
       /\ validate_date_format(fields.date)
    THEN [value |-> Some(fields), raised |-> ""]
    ELSE [value |-> None, raised |-> "ValidationError"]

\* what the call returns (value) or propagates (raised)
compute_daily_summary(uid, dt, sd, rd, cd, pd, current_time) ==
    DailySummary(
        [userId            |-> uid,
         recordId          |-> SummaryPrefix \o dt,
         date              |-> dt,
         recoveryScore     |-> recovery_score(rd),
         sleepQualityScore |-> sleep_quality_score(sd),
         totalStrain       |-> total_strain(cd),
         sleepDuration     |-> sleep_duration(sd),
         averageHRV        |-> average_hrv(pd),
         restingHeartRate  |-> resting_heart_rate(rd),
         respiratoryRate   |-> respiratory_rate(pd),
         dataCompleteness  |-> completeness(sd, rd, cd, pd),
         computedAt        |-> current_time,
         ttl               |-> current_time + (30 * 24 * 60 * 60)])

---------------------------------------------------------------------------
(* Inputs.  Records hold the fields the service reads; every value         *)
(* satisfies the Field(...) constraints of its schema in data_models.py.   *)

\* largest disturbanceCount drawn
MaxDisturbances == 12

\* longest physiological_data list drawn
MaxSamples == 2

\* sleep durations are drawn on a grid of a tenth of an hour
TenthHourMs == 1000 * 60 * 6

Ms(tenths) == RatOf(tenths * TenthHourMs)

DurationTenths == {0, 1, 20, 49, 50, 55, 59, 60, 69, 70, 75, 80, 90, 91, 100, 101, 110}

QualityTenths == {0, 1, 3, 36, 50, 72, 120}

\* SleepData records for the scorer: every bracket boundary, efficiencies
\* from 0 to above 1, exactly 1, and ones whose 40-fold is a tie (x.5)
ScoreSleepInputs ==
    {[duration |-> Ms(t), qualityDuration |-> Ms(q), disturbanceCount |-> k] :
        t \in DurationTenths, q \in QualityTenths \cup DurationTenths,
        k \in 0..MaxDisturbances}

SleepInputs ==
    {[duration |-> Ms(80), qualityDuration |-> Ms(72), disturbanceCount |-> 2],
     [duration |-> Ms(0), qualityDuration |-> Ms(0), disturbanceCount |-> 0]}

RecoveryInputs ==
    {[recoveryScore |-> RatOf(75), restingHeartRate |-> RatOf(55)],
     [recoveryScore |-> RatOf(0), restingHeartRate |-> <<105, 2>>]}

CycleInputs == {[strain |-> <<25, 2>>], [strain |-> RatOf(0)]}

SampleInputs ==
    {[heartRateVariability |-> None, respiratoryRate |-> RatOf(15)],
     [heartRateVariability |-> Some(RatOf(65)), respiratoryRate |-> RatOf(15)],
     [heartRateVariability |-> Some(RatOf(68)), respiratoryRate |-> <<29, 2>>]}

PhysiologicalInputs ==
    UNION {[1..n -> SampleInputs] : n \in 0..MaxSamples}

Opt(S) == {None} \cup {Some(x) : x \in S}

\* date strings: well-formed ones, ones with a one-digit or blank-padded
\* field, with a wrong separator, a short year, trailing text, and days
\* and months that do not exist
DateInputs ==
    {y \o <<sep>> \o m \o <<sep>> \o d :
        y \in {<<"2", "0", "2", "4">>, <<"2", "0", "2", "3">>, <<"2", "4">>},
        m \in {<<"0", "2">>, <<"2">>, <<"1", "3">>},
        d \in {<<"0", "6">>, <<"6">>, <<" ", "6">>, <<"2", "9">>, <<"3", "0">>,
               <<"0", "6", "1">>},
        sep \in {"-", "/"}}
    \cup {<<>>}

Clock == {1707177600}

\* no storage call made: AnalyticsService() as the tests' fixture and the demo
\* build it, without a client
NoCall ==
    [op |-> "", summary |-> <<>>, user_id |-> "", start_date |-> <<>>,
     end_date |-> <<>>, limit |-> 0, backend_ok |-> TRUE]

UTC == [std |-> 0, dst |-> 0, dst_start |-> 0, dst_end |-> 0]

NoStorage ==
    /\ dynamodb_client = FALSE
    /\ table = {}
    /\ call = NoCall
    /\ store_returned = <<>>
    /\ get_returned = <<>>
    /\ sent = <<>>
    /\ tz = UTC
    /\ date_range = <<>>

---------------------------------------------------------------------------
(* The caller: it holds the arguments, calls the service, keeps the result *)

Init ==
    /\ user_id = "test-user-123"
    /\ date \in DateInputs
    /\ sleep_data \in Opt(SleepInputs)
    /\ recovery_data \in Opt(RecoveryInputs)
    /\ cycle_data \in Opt(CycleInputs)
    /\ physiological_data \in Opt(PhysiologicalInputs)
    /\ now \in Clock
    /\ score = None
    /\ summary = None
    /\ raised = ""
    /\ NoStorage

\* score = analytics.calculate_sleep_quality_score(sleep_data)
ScoreCall ==
    /\ sleep_data # None
    /\ score = None
    /\ score' = Some(calculate_sleep_quality_score(sleep_data[1]))
    /\ UNCHANGED <<user_id, date, sleep_data, recovery_data, cycle_data,
                   physiological_data, now, summary, raised, store_vars>>

\* summary = analytics.compute_daily_summary(user_id, date, ...)
SummaryCall ==
    /\ summary = None
    /\ raised = ""
    /\ LET r == compute_daily_summary(user_id, date, sleep_data, recovery_data,
                                      cycle_data, physiological_data, now)
       IN  /\ summary' = r.value
           /\ raised' = r.raised
    /\ UNCHANGED <<user_id, date, sleep_data, recovery_data, cycle_data,
                   physiological_data, now, score, store_vars>>

Next == ScoreCall \/ SummaryCall

Spec == Init /\ [][Next]_vars

---------------------------------------------------------------------------
(* The scorer on its own, over the wide set of sleep records *)

InitScore ==
    /\ user_id = ""
    /\ date = <<>>
    /\ sleep_data \in Opt(ScoreSleepInputs) \ {None}
    /\ recovery_data = None
    /\ cycle_data = None
    /\ physiological_data = None
    /\ now = 0
    /\ score = None
    /\ summary = None
    /\ raised = ""
    /\ NoStorage

\* sample_sleep_data.disturbanceCount = k, then the scorer is called again
\* on the modified record
Rescore(k) ==
    /\ score # None
    /\ sleep_data' = Some([sleep_data[1] EXCEPT !.disturbanceCount = k])
    /\ score' = Some(calculate_sleep_quality_score(sleep_data'[1]))
    /\ UNCHANGED <<user_id, date, recovery_data, cycle_data,
                   physiological_data, now, summary, raised, store_vars>>

NextScore == ScoreCall \/ \E k \in 0..MaxDisturbances : Rescore(k)

SpecScore == InitScore /\ [][NextScore]_vars

---------------------------------------------------------------------------
(* Properties of calculate_sleep_quality_score, checked under SpecScore *)

Scored == score # None

\* C1: for every valid SleepData the scorer returns an integer s with
\* 0 <= s <= 100.
C1_ScoreIsIntegerInRange ==
    Scored => /\ score[1][2] = 1
              /\ score[1][1] >= 0
              /\ score[1][1] <= 100

\* an 8 h record whose quality duration exceeds its duration, no disturbances:
\* the sub-scores are at their caps and the score is 100
C1_Witness ==
    /\ Scored
    /\ sleep_data[1].duration = Ms(80)
    /\ sleep_data[1].qualityDuration = Ms(120)
    /\ sleep_data[1].disturbanceCount = 0
    /\ score = Some(RatOf(100))

\* the duration sub-score as the claim states it, on milliseconds
C2_D(sd) ==
    LET ms == sd.duration IN
    IF RatLE(RatOf(7 * MsPerHour), ms) /\ RatLE(ms, RatOf(9 * MsPerHour)) THEN 40
    ELSE IF RatLE(RatOf(6 * MsPerHour), ms) /\ RatLT(ms, RatOf(7 * MsPerHour)) THEN 30
    ELSE IF RatLE(RatOf(5 * MsPerHour), ms) /\ RatLT(ms, RatOf(6 * MsPerHour)) THEN 20
    ELSE IF RatLT(RatOf(9 * MsPerHour), ms) /\ RatLE(ms, RatOf(10 * MsPerHour)) THEN 30
    ELSE 10

\* E = min(40, 40 * qualityDuration / duration), 0 when duration is 0
C2_E(sd) ==
    IF sd.duration[1] = 0 THEN RatOf(0)
    ELSE LET e == Norm(40 * sd.qualityDuration[1] * sd.duration[2],
                       sd.qualityDuration[2] * sd.duration[1])
         IN  IF RatLT(RatOf(40), e) THEN RatOf(40) ELSE e

\* X = max(0, 20 - 2 * disturbanceCount)
C2_X(sd) == IF sd.disturbanceCount >= 10 THEN 0 ELSE 20 - 2 * sd.disturbanceCount

\* min(100, max(0, D + E + X))
C2_T(sd) ==
    LET t == RatAdd(RatOf(C2_D(sd) + C2_X(sd)), C2_E(sd))
    IN  IF RatLT(RatOf(100), t) THEN RatOf(100)
        ELSE IF RatLT(t, RatOf(0)) THEN RatOf(0) ELSE t

\* k is t rounded: an integer within 1/2 of t, the even one at a tie
C2_IsRounded(k, t) ==
    /\ 2 * Abs(t[1] - k * t[2]) <= t[2]
    /\ 2 * Abs(t[1] - k * t[2]) = t[2] => k % 2 = 0

\* C2: the score equals round(min(100, max(0, D + E + X))) with D, E, X as
\* the claim defines them (E = 0 when duration is 0); rounded, not truncated.
C2_ScoreFormula ==
    Scored => /\ score[1][2] = 1
              /\ C2_IsRounded(score[1][1], C2_T(sleep_data[1]))

\* 8 h, quality 0.3 h, no disturbances: 40 + 1.5 + 20 = 61.5 rounds to 62
C2_Witness ==
    /\ Scored
    /\ sleep_data[1].duration = Ms(80)
    /\ sleep_data[1].qualityDuration = Ms(3)
    /\ sleep_data[1].disturbanceCount = 0
    /\ score = Some(RatOf(62))

\* C8: duration in [7 h, 9 h], no disturbances and qualityDuration = duration
\* give exactly 100.
C8_OptimalSleepScores100 ==
    (/\ Scored
     /\ RatLE(RatOf(7 * MsPerHour), sleep_data[1].duration)
     /\ RatLE(sleep_data[1].duration, RatOf(9 * MsPerHour))
     /\ sleep_data[1].disturbanceCount = 0
     /\ sleep_data[1].qualityDuration = sleep_data[1].duration)
    => score = Some(RatOf(100))

\* exactly 7 h, fully efficient, undisturbed, scored
C8_Witness ==
    /\ Scored
    /\ sleep_data[1].duration = Ms(70)
    /\ sleep_data[1].qualityDuration = Ms(70)
    /\ sleep_data[1].disturbanceCount = 0

\* C9: of two records that differ only in disturbanceCount the one with the
\* larger count never scores higher; from 10 disturbances on the score stays
\* the same and is the rounded sum of the duration and efficiency sub-scores.
C9_MonotoneInDisturbances ==
    [][(/\ Scored
        /\ score' # None
        /\ sleep_data'[1].duration = sleep_data[1].duration
        /\ sleep_data'[1].qualityDuration = sleep_data[1].qualityDuration
        /\ sleep_data'[1].disturbanceCount >= sleep_data[1].disturbanceCount)
       => /\ RatLE(score'[1], score[1])
          /\ sleep_data[1].disturbanceCount >= 10
             => /\ score' = score
                /\ score[1] = RatOf(round(RatAdd(RatOf(duration_score(sleep_data[1])),
                                                 efficiency_score(sleep_data[1]))))
      ]_vars

\* 8 h at 90 % efficiency with more than 10 disturbances: 40 + 36 + 0 = 76
C9_Witness ==
    /\ Scored
    /\ sleep_data[1].duration = Ms(80)
    /\ sleep_data[1].qualityDuration = Ms(72)
    /\ sleep_data[1].disturbanceCount > 10
    /\ score = Some(RatOf(76))

---------------------------------------------------------------------------
(* Properties of compute_daily_summary, checked under Spec *)

\* compute_daily_summary has returned a summary
Returned == summary # None

\* compute_daily_summary has been called and has returned or raised
Called == summary # None \/ raised # ""

Present(opt) == opt # None

Supplied(pd) == pd # None /\ pd[1] # <<>>

\* the positions of the samples that carry an HRV value
WithHRV(l) == {i \in 1..Len(l) : l[i].heartRateVariability # None}

\* C3 as stated: each optional field is present iff its source input was
\* supplied and non-empty, averageHRV included.
C3_PresentIffSupplied ==
    Returned =>
        /\ Present(summary[1].recoveryScore) <=> recovery_data # None
        /\ Present(summary[1].restingHeartRate) <=> recovery_data # None
        /\ Present(summary[1].sleepQualityScore) <=> sleep_data # None
        /\ Present(summary[1].sleepDuration) <=> sleep_data # None
        /\ Present(summary[1].totalStrain) <=> cycle_data # None
        /\ Present(summary[1].averageHRV) <=> Supplied(physiological_data)
        /\ Present(summary[1].respiratoryRate) <=> Supplied(physiological_data)

\* C3 amended: as stated, except that averageHRV is present iff
\* physiological_data is given and at least one of its samples has an HRV
\* value.
C3_PresentIffSuppliedWithHRV ==
    Returned =>
        /\ Present(summary[1].recoveryScore) <=> recovery_data # None
        /\ Present(summary[1].restingHeartRate) <=> recovery_data # None
        /\ Present(summary[1].sleepQualityScore) <=> sleep_data # None
        /\ Present(summary[1].sleepDuration) <=> sleep_data # None
        /\ Present(summary[1].totalStrain) <=> cycle_data # None
        /\ Present(summary[1].averageHRV)
           <=> (physiological_data # None /\ WithHRV(physiological_data[1]) # {})
        /\ Present(summary[1].respiratoryRate) <=> Supplied(physiological_data)

\* samples supplied, none with HRV, and a recovery score of 0: averageHRV is
\* absent, respiratoryRate and recoveryScore are present
C3_Witness ==
    /\ Returned
    /\ Supplied(physiological_data)
    /\ WithHRV(physiological_data[1]) = {}
    /\ recovery_data # None
    /\ recovery_data[1].recoveryScore = RatOf(0)
    /\ summary[1].averageHRV = None
    /\ Present(summary[1].respiratoryRate)
    /\ summary[1].recoveryScore = Some(RatOf(0))

\* C4: hasSleep, hasRecovery, hasCycle say whether the input was given,
\* hasPhysiological whether the list was given with at least one sample,
\* hasWorkout is false.
C4_CompletenessFlags ==
    Returned =>
        /\ summary[1].dataCompleteness.hasSleep = (sleep_data # None)
        /\ summary[1].dataCompleteness.hasRecovery = (recovery_data # None)
        /\ summary[1].dataCompleteness.hasCycle = (cycle_data # None)
        /\ summary[1].dataCompleteness.hasPhysiological
           = (physiological_data # None /\ Len(physiological_data[1]) >= 1)
        /\ summary[1].dataCompleteness.hasWorkout = FALSE

\* sleep and cycle given, recovery not, samples given
C4_Witness ==
    /\ Returned
    /\ sleep_data # None
    /\ recovery_data = None
    /\ cycle_data # None
    /\ Supplied(physiological_data)
    /\ summary[1].dataCompleteness.hasPhysiological

\* the sum of the HRV values at the positions in S
RECURSIVE C5_SumAt(_, _)
C5_SumAt(l, S) ==
    IF S = {} THEN RatOf(0)
    ELSE LET i == CHOOSE j \in S : TRUE
         IN  RatAdd(l[i].heartRateVariability[1], C5_SumAt(l, S \ {i}))

\* C5: averageHRV is the sum of the HRV values of the samples that have one
\* divided by the number of those samples; it is absent, never zero, when
\* the list is absent, empty or has no sample with HRV.
C5_AverageHRV ==
    Returned =>
        LET S == IF physiological_data = None THEN {}
                 ELSE WithHRV(physiological_data[1])
        IN  /\ S = {} => summary[1].averageHRV = None
            /\ S # {} =>
                 /\ Present(summary[1].averageHRV)
                 /\ RatMul(summary[1].averageHRV[1], RatOf(Cardinality(S)))
                    = C5_SumAt(physiological_data[1], S)
            /\ summary[1].averageHRV # Some(RatOf(0))

\* two samples of which one has no HRV: the average is the other's value
C5_Witness ==
    /\ Returned
    /\ physiological_data # None
    /\ Len(physiological_data[1]) = 2
    /\ Cardinality(WithHRV(physiological_data[1])) = 1
    /\ summary[1].averageHRV = Some(RatOf(68))

\* C6: sleepQualityScore and sleepDuration are both present or both absent;
\* when present the first is the scorer's result for the sleep record and
\* the second is duration / 3 600 000.
C6_SleepFieldsTogether ==
    Returned =>
        /\ Present(summary[1].sleepQualityScore) <=> Present(summary[1].sleepDuration)
        /\ sleep_data # None =>
             /\ summary[1].sleepQualityScore
                = Some(calculate_sleep_quality_score(sleep_data[1]))
             /\ Present(summary[1].sleepDuration)
             /\ RatMul(summary[1].sleepDuration[1], RatOf(3600000))
                = sleep_data[1].duration

\* a sleep record of duration 0: both fields are present, the duration is 0
C6_Witness ==
    /\ Returned
    /\ sleep_data # None
    /\ sleep_data[1].duration = RatOf(0)
    /\ summary[1].sleepDuration = Some(RatOf(0))
    /\ summary[1].sleepQualityScore = Some(RatOf(30))

\* C7: with physiological_data = [] the summary has hasPhysiological false
\* and no averageHRV and respiratoryRate, and the call's outcome is the one
\* of the same call without physiological_data.
C7_EmptyListAsAbsent ==
    (Called /\ physiological_data = Some(<<>>)) =>
        /\ Returned =>
             /\ summary[1].dataCompleteness.hasPhysiological = FALSE
             /\ summary[1].averageHRV = None
             /\ summary[1].respiratoryRate = None
        /\ [value |-> summary, raised |-> raised]
           = compute_daily_summary(user_id, date, sleep_data, recovery_data,
                                   cycle_data, None, now)

\* the call of test_empty_physiological_data: sleep only, and an empty list
C7_Witness ==
    /\ Returned
    /\ physiological_data = Some(<<>>)
    /\ sleep_data # None
    /\ recovery_data = None
    /\ cycle_data = None

\* the form YYYY-MM-DD: four digits, two digits, two digits
C10_IsYYYYMMDD(s) ==
    /\ Len(s) = 10
    /\ \A i \in {1, 2, 3, 4, 6, 7, 9, 10} : IsDigit(s[i])
    /\ s[5] = "-"
    /\ s[8] = "-"

\* a date of that form that names a day of the calendar
C10_IsCalendarDate(s) ==
    /\ C10_IsYYYYMMDD(s)
    /\ IntOf(s, 1, 4) >= 1
    /\ IntOf(s, 6, 2) \in 1..12
    /\ IntOf(s, 9, 2) >= 1
    /\ IntOf(s, 9, 2) <= DaysInMonth(IntOf(s, 1, 4), IntOf(s, 6, 2))

\* C10: a date that is not of the form YYYY-MM-DD makes compute_daily_summary
\* fail with a validation error and return no summary; with a well-formed
\* date the call returns a summary whatever the optional inputs.
C10_DateValidation ==
    Called =>
        /\ ~C10_IsYYYYMMDD(date) => (raised = "ValidationError" /\ summary = None)
        /\ C10_IsCalendarDate(date) => (raised = "" /\ summary # None)

---------------------------------------------------------------------------
(* store_daily_summary: the item it builds and the request it sends *)

summaries_table == "daily_summaries"

MetricNames ==
    {"recoveryScore", "sleepQualityScore", "totalStrain", "sleepDuration",
     "averageHRV", "restingHeartRate", "respiratoryRate"}

\* float('inf'): the one float in the model that int() cannot convert
Inf == <<1, 0>>

(* A float whose significand does not fit a ratio of small integers is kept *)
(* as the IEEE 754 double it is: <<"f64", m, e>> stands for m * 2^e, with   *)
(* the integer m (below 2^53) as a sequence of 20-bit limbs, lowest first.  *)
(* For the ratios <<n, d>> of the scenarios the product x * 100 is exact    *)
(* in double arithmetic or far from an integer, so the exact product gives  *)
(* what int() gives; for a double next to a multiple of 0.01 the rounding   *)
(* of the product decides, and is computed as the hardware does it.         *)

IsDouble(x) == Len(x) = 3

Limb == 1024 * 1024

RECURSIVE Pow2(_)
Pow2(n) == IF n = 0 THEN 1 ELSE 2 * Pow2(n - 1)

\* the number of bits of a non-negative integer
RECURSIVE BitLen(_)
BitLen(n) == IF n = 0 THEN 0 ELSE 1 + BitLen(n \div 2)

\* b * k + carry for a small k
RECURSIVE BigMulSmall(_, _, _)
BigMulSmall(b, k, carry) ==
    IF b = <<>> THEN (IF carry = 0 THEN <<>> ELSE <<carry>>)
    ELSE LET c == b[1] * k + carry
         IN  <<c % Limb>> \o BigMulSmall(Tail(b), k, c \div Limb)

\* the number of bits of b
RECURSIVE BigBitLen(_)
BigBitLen(b) ==
    IF b = <<>> THEN 0
    ELSE IF b[Len(b)] = 0 THEN BigBitLen(SubSeq(b, 1, Len(b) - 1))
    ELSE 20 * (Len(b) - 1) + BitLen(b[Len(b)])

\* floor(b / 2^t)
BigShiftRight(b, t) ==
    LET c == SubSeq(b, (t \div 20) + 1, Len(b))
        r == t % 20
    IN  [i \in 1..Len(c) |->
            (c[i] \div Pow2(r))
            + (IF i < Len(c) THEN (c[i + 1] % Pow2(r)) * Pow2(20 - r) ELSE 0)]

\* b + 1
RECURSIVE BigInc(_)
BigInc(b) ==
    IF b = <<>> THEN <<1>>
    ELSE IF b[1] + 1 < Limb THEN <<b[1] + 1>> \o Tail(b)
    ELSE <<0>> \o BigInc(Tail(b))

\* b as an integer (b below 2^31)
RECURSIVE BigToInt(_)
BigToInt(b) ==
    IF b = <<>> THEN 0
    ELSE IF BigBitLen(Tail(b)) = 0 THEN b[1]
    ELSE b[1] + Limb * BigToInt(Tail(b))

\* the double nearest to m * 2^e for an integer m of any size: m cut to 53
\* bits, round half to even
RoundToDouble(m, e) ==
    LET s == BigBitLen(m) - 53 IN
    IF s <= 0 THEN <<"f64", m, e>>
    ELSE LET q    == BigShiftRight(m, s)
             rem  == m[1] % Pow2(s)
             half == Pow2(s - 1)
             up   == rem > half \/ (rem = half /\ q[1] % 2 = 1)
         IN  <<"f64", IF up THEN BigInc(q) ELSE q, e + s>>

\* x * 100 in float arithmetic
times100(x) ==
    IF IsDouble(x)
    THEN RoundToDouble(BigMulSmall(x[2], 100, 0), x[3])
    ELSE RatMul(x, RatOf(100))

\* int(x) for a float x: truncation toward zero
int(x) ==
    IF IsDouble(x) THEN BigToInt(BigShiftRight(x[2], -x[3]))
    ELSE IF x[1] >= 0 THEN x[1] \div x[2] ELSE -((-x[1]) \div x[2])

\* int(x) raises OverflowError
int_raises(x) == ~IsDouble(x) /\ x[2] = 0

\* int(x * 100) / 100
trunc2(x) == Norm(int(times100(x)), 100)

\* the metrics the summary carries (is not None)
present_metrics(s) == {m \in MetricNames : s[m] # None}

\* building the item raises: a metric is infinite
item_raises(s) == \E m \in present_metrics(s) : int_raises(s[m][1])

\* the dict built at the start of the try block; absent metrics get no key
store_item(s) ==
    [userId     |-> s.userId,
     recordId   |-> s.recordId,
     date       |-> s.date,
     computedAt |-> s.computedAt,
     ttl        |-> s.ttl,
     dataCompleteness |->
         [hasSleep         |-> s.dataCompleteness.hasSleep,
          hasRecovery      |-> s.dataCompleteness.hasRecovery,
          hasWorkout       |-> s.dataCompleteness.hasWorkout,
          hasCycle         |-> s.dataCompleteness.hasCycle,
          hasPhysiological |-> s.dataCompleteness.hasPhysiological]]
    @@ [m \in present_metrics(s) |-> trunc2(s[m][1])]

\* the primary key of the table: partition key userId, sort key recordId
item_key(item) == <<item.userId, item.recordId>>

\* the backend's PutItem: the item replaces the one with the same key
put_item_append(tbl, item) == tbl \cup {item}

put_item(tbl, item) ==
    {i \in tbl : item_key(i) # item_key(item)} \cup {item}

PutRequest(item) ==
    [op |-> "put_item", TableName |-> summaries_table, Item |-> item]

\* what one call does: the exception it propagates, the value it returns,
\* the requests it sends and the table the backend holds afterwards.
\* backend_ok: the backend carries out the request (else it raises)
StoreEffect(r, v, reqs, tbl) ==
    [raised |-> r, returned |-> v, sent |-> reqs, table |-> tbl]

store_daily_summary_unguarded(client, s, tbl, backend_ok) ==
    IF ~client \/ item_raises(s)
    THEN StoreEffect("", Some(FALSE), <<>>, tbl)
    ELSE LET item == store_item(s) IN
         IF backend_ok
         THEN StoreEffect("", Some(TRUE), <<PutRequest(item)>>, put_item(tbl, item))
         ELSE StoreEffect("", Some(FALSE), <<PutRequest(item)>>, tbl)

store_daily_summary_uncaught(client, s, tbl, backend_ok) ==
    IF ~client
    THEN StoreEffect("ValueError", None, <<>>, tbl)
    ELSE IF item_raises(s)
    THEN StoreEffect("OverflowError", None, <<>>, tbl)
    ELSE LET item == store_item(s) IN
         IF backend_ok
         THEN StoreEffect("", Some(TRUE), <<PutRequest(item)>>, put_item(tbl, item))
         ELSE StoreEffect("ClientError", None, <<PutRequest(item)>>, tbl)

store_daily_summary_retrying(client, s, tbl, backend_ok) ==
    IF ~client
    THEN StoreEffect("ValueError", None, <<>>, tbl)
    ELSE IF item_raises(s)
    THEN StoreEffect("", Some(FALSE), <<>>, tbl)
    ELSE LET item == store_item(s) IN
         IF backend_ok
         THEN StoreEffect("", Some(TRUE), <<PutRequest(item)>>, put_item(tbl, item))
         ELSE StoreEffect("", Some(FALSE),
                          <<PutRequest(item), PutRequest(item)>>, tbl)

store_daily_summary(client, s, tbl, backend_ok) ==
    IF ~client
    THEN StoreEffect("ValueError", None, <<>>, tbl)
    ELSE IF item_raises(s)
    THEN StoreEffect("", Some(FALSE), <<>>, tbl)
    ELSE LET item == store_item(s) IN
         IF backend_ok
         THEN StoreEffect("", Some(TRUE), <<PutRequest(item)>>, put_item(tbl, item))
         ELSE StoreEffect("", Some(FALSE), <<PutRequest(item)>>, tbl)

---------------------------------------------------------------------------
(* Local time: datetime.now(), timedelta, strftime, timestamp *)

SecPerDay == 24 * 60 * 60

\* seconds east of UTC in force at the instant t (seconds since the epoch);
\* zone.dst is in force from zone.dst_start up to zone.dst_end
utcoffset(zone, t) ==
    IF zone.dst_start <= t /\ t < zone.dst_end THEN zone.dst ELSE zone.std

DaysInYear(y) == IF IsLeap(y) THEN 366 ELSE 365

\* the year holding day number n (n = 0 is 1 January of year y), with the
\* day's number in that year
RECURSIVE YearOfDay(_, _)
YearOfDay(n, y) ==
    IF n < DaysInYear(y) THEN <<y, n>> ELSE YearOfDay(n - DaysInYear(y), y + 1)

RECURSIVE MonthOfDay(_, _, _)
MonthOfDay(y, m, n) ==
    IF n < DaysInMonth(y, m) THEN <<y, m, n + 1>>
    ELSE MonthOfDay(y, m + 1, n - DaysInMonth(y, m))

\* <<year, month, day>> of day number n, n = 0 being 1970-01-01
ymd_of_days(n) ==
    LET yd == YearOfDay(n, 1970) IN MonthOfDay(yd[1], 1, yd[2])

RECURSIVE DaysBeforeYear(_)
DaysBeforeYear(y) ==
    IF y <= 1970 THEN 0 ELSE DaysBeforeYear(y - 1) + DaysInYear(y - 1)

RECURSIVE DaysBeforeMonth(_, _)
DaysBeforeMonth(y, m) ==
    IF m <= 1 THEN 0 ELSE DaysBeforeMonth(y, m - 1) + DaysInMonth(y, m - 1)

\* the day number of <<year, month, day>>, year >= 1970
days_of_ymd(ymd) ==
    DaysBeforeYear(ymd[1]) + DaysBeforeMonth(ymd[1], ymd[2]) + ymd[3] - 1

\* datetime.now().date() as a day number: the local calendar day at instant t
local_day(zone, t) == (t + utcoffset(zone, t)) \div SecPerDay

DigitChar == <<"0", "1", "2", "3", "4", "5", "6", "7", "8", "9">>

\* the last n decimal digits of i, zero padded
RECURSIVE Digits(_, _)
Digits(i, n) ==
    IF n = 0 THEN <<>> ELSE Digits(i \div 10, n - 1) \o <<DigitChar[(i % 10) + 1]>>

\* strftime('%Y-%m-%d')
strftime(ymd) ==
    Digits(ymd[1], 4) \o <<"-">> \o Digits(ymd[2], 2) \o <<"-">> \o Digits(ymd[3], 2)

---------------------------------------------------------------------------
(* get_daily_summaries: the query it sends and what it makes of the answer *)

\* the characters of the model's strings, in code point order
CodePoints ==
    <<" ", "#", "-", "/", "0", "1", "2", "3", "4", "5", "6", "7", "8", "9",
      "a", "m", "r", "s", "u", "y">>

Ord == [c \in {CodePoints[i] : i \in 1..Len(CodePoints)} |->
           CHOOSE i \in 1..Len(CodePoints) : CodePoints[i] = c]

ord(c) == Ord[c]

\* a <= b for strings, as the backend orders a string sort key
RECURSIVE LexLE(_, _)
LexLE(a, b) ==
    IF a = <<>> THEN TRUE
    ELSE IF b = <<>> THEN FALSE
    ELSE IF a[1] # b[1] THEN ord(a[1]) < ord(b[1])
    ELSE LexLE(Tail(a), Tail(b))

\* f'summary#{start_date}'
range_key_bare(d) == d

range_key(d) == <<"s", "u", "m", "m", "a", "r", "y", "#">> \o d

\* "if not end_date": None and '' are falsy
falsy(opt) == opt = None \/ opt[1] = <<>>

\* end_date defaults to today, start_date to 30 days before today
default_end_date(zone, t) == strftime(ymd_of_days(local_day(zone, t)))

default_start_date(zone, t) == strftime(ymd_of_days(local_day(zone, t) - 30))

end_date_used(opt, zone, t) ==
    IF falsy(opt) THEN default_end_date(zone, t) ELSE opt[1]

start_date_used(opt, zone, t) ==
    IF falsy(opt) THEN default_start_date(zone, t) ELSE opt[1]

QueryRequest(uid, start, end, lim) ==
    [op |-> "query", TableName |-> summaries_table,
     userId |-> uid, start |-> range_key(start), end |-> range_key(end),
     Limit |-> lim, ScanIndexForward |-> FALSE]

\* the backend refuses the request: Limit below 1, or BETWEEN bounds in the
\* wrong order
query_rejected(req) == req.Limit < 1 \/ ~LexLE(req.start, req.end)

\* the items of the set S ordered by sort key, ascending
RECURSIVE SortByRecordId(_)
SortByRecordId(S) ==
    IF S = {} THEN <<>>
    ELSE LET first == CHOOSE i \in S : \A j \in S : LexLE(i.recordId, j.recordId)
         IN  <<first>> \o SortByRecordId(S \ {first})

Reverse(s) == [i \in 1..Len(s) |-> s[Len(s) + 1 - i]]

Take(s, n) == SubSeq(s, 1, IF n < Len(s) THEN n ELSE Len(s))

\* the backend's Query: the items of the partition whose sort key is
\* BETWEEN the bounds, in sort key order (descending unless
\* ScanIndexForward), cut after Limit items
query_forward(tbl, req) ==
    LET hits == {i \in tbl : /\ i.userId = req.userId
                             /\ LexLE(req.start, i.recordId)
                             /\ LexLE(i.recordId, req.end)}
    IN  Take(SortByRecordId(hits), req.Limit)

query(tbl, req) ==
    LET hits == {i \in tbl : /\ i.userId = req.userId
                             /\ LexLE(req.start, i.recordId)
                             /\ LexLE(i.recordId, req.end)}
        asc  == SortByRecordId(hits)
    IN  Take(IF req.ScanIndexForward THEN asc ELSE Reverse(asc), req.Limit)

\* item.get(k): Some(value), or None for a missing key
get(item, k) == IF k \in DOMAIN item THEN Some(item[k]) ELSE None

RequiredKeys == {"userId", "recordId", "date", "computedAt", "ttl"}

\* completeness_data.get(flag, False)
flag(item, k) ==
    IF "dataCompleteness" \in DOMAIN item /\ k \in DOMAIN item.dataCompleteness
    THEN item.dataCompleteness[k]
    ELSE FALSE

\* Some(DailySummary), or None where the conversion raises (a KeyError for
\* a missing required key, a ValidationError for an invalid field)
item_to_summary(item) ==
    IF ~(RequiredKeys \subseteq DOMAIN item)
    THEN None
    ELSE DailySummary(
             [userId            |-> item.userId,
              recordId          |-> item.recordId,
              date              |-> item.date,
              recoveryScore     |-> get(item, "recoveryScore"),
              sleepQualityScore |-> get(item, "sleepQualityScore"),
              totalStrain       |-> get(item, "totalStrain"),
              sleepDuration     |-> get(item, "sleepDuration"),
              averageHRV        |-> get(item, "averageHRV"),
              restingHeartRate  |-> get(item, "restingHeartRate"),
              respiratoryRate   |-> get(item, "respiratoryRate"),
              dataCompleteness  |->
                  [hasSleep         |-> flag(item, "hasSleep"),
                   hasRecovery      |-> flag(item, "hasRecovery"),
                   hasWorkout       |-> flag(item, "hasWorkout"),
                   hasCycle         |-> flag(item, "hasCycle"),
                   hasPhysiological |-> flag(item, "hasPhysiological")],
              computedAt        |-> item.computedAt,
              ttl               |-> item.ttl]).value

\* the loop over response['Items']: the summaries of the items that convert
convert_items_abort(items) ==
    IF \E i \in 1..Len(items) : item_to_summary(items[i]) = None
    THEN <<>>
    ELSE [i \in 1..Len(items) |-> item_to_summary(items[i])[1]]

RECURSIVE convert_items(_)
convert_items(items) ==
    IF items = <<>> THEN <<>>
    ELSE LET s == item_to_summary(items[1]) IN
         (IF s # None THEN <<s[1]>> ELSE <<>>) \o convert_items(Tail(items))

GetEffect(r, v, reqs) == [raised |-> r, returned |-> v, sent |-> reqs]

get_daily_summaries_uncaught(client, uid, start_date, end_date, lim, zone, t, tbl, backend_ok) ==
    LET req == QueryRequest(uid, start_date_used(start_date, zone, t),
                            end_date_used(end_date, zone, t), lim)
    IN  IF ~client
        THEN GetEffect("ValueError", None, <<>>)
        ELSE IF ~backend_ok \/ query_rejected(req)
        THEN GetEffect("ClientError", None, <<req>>)
        ELSE GetEffect("", Some(convert_items(query(tbl, req))), <<req>>)

get_daily_summaries(client, uid, start_date, end_date, lim, zone, t, tbl, backend_ok) ==
    LET req == QueryRequest(uid, start_date_used(start_date, zone, t),
                            end_date_used(end_date, zone, t), lim)
    IN  IF ~client
        THEN GetEffect("ValueError", None, <<>>)
        ELSE IF ~backend_ok \/ query_rejected(req)
        THEN GetEffect("", Some(<<>>), <<req>>)
        ELSE GetEffect("", Some(convert_items(query(tbl, req))), <<req>>)

---------------------------------------------------------------------------
(* The storage scenario: a process computes summaries, stores them and     *)
(* reads them back, against a backend that already holds items             *)

Users == {"u1", "u2"}

\* the instant the calls are made at: 2024-02-06 00:00:00 UTC
StoreClock == 1707177600

\* today, and the first day of the default range
Today == strftime(ymd_of_days(StoreClock \div SecPerDay))

RangeStart == strftime(ymd_of_days((StoreClock \div SecPerDay) - 30))

\* 7 h 46 min 40 s of sleep: 7.777... hours
LongSleep ==
    [duration |-> RatOf(28000000), qualityDuration |-> RatOf(25200000),
     disturbanceCount |-> 2]

\* a sleep record whose duration is float('inf') (Field(ge=0) admits it)
EndlessSleep ==
    [duration |-> Inf, qualityDuration |-> RatOf(25200000),
     disturbanceCount |-> 2]

TwoSamples ==
    <<[heartRateVariability |-> Some(RatOf(65)), respiratoryRate |-> RatOf(15)],
      [heartRateVariability |-> Some(<<137, 2>>), respiratoryRate |-> <<29, 2>>]>>

Computed(uid, dt, sd, rd, cd, pd) ==
    compute_daily_summary(uid, dt, sd, rd, cd, pd, StoreClock).value[1]

\* sum(hrv_values) / len(hrv_values) for the samples 20.0, 27.0, 31.3:
\* the double 26.099999999999998 = 7346496892148121 * 2^-48
AverageOfThree == <<"f64", <<629145, 629145, 6681>>, -48>>

FullDay(uid, dt) ==
    Computed(uid, dt, Some(LongSleep),
             Some([recoveryScore |-> RatOf(75), restingHeartRate |-> <<105, 2>>]),
             Some([strain |-> <<25, 2>>]), Some(TwoSamples))

RecoveryOnlyDay(uid, dt) ==
    Computed(uid, dt, None,
             Some([recoveryScore |-> RatOf(0), restingHeartRate |-> RatOf(55)]),
             None, None)

\* a day whose three samples average to 26.099999999999998
ThreeSampleDay(uid, dt) ==
    [FullDay(uid, dt) EXCEPT !.averageHRV = Some(AverageOfThree)]

EndlessDay(uid, dt) ==
    Computed(uid, dt, Some(EndlessSleep), None, None, None)

\* the summaries the process stores
StoreSummaries ==
    {FullDay("u1", RangeStart), RecoveryOnlyDay("u1", RangeStart),
     ThreeSampleDay("u1", Today), FullDay("u2", Today),
     EndlessDay("u1", Today)}

\* items the backend holds from elsewhere: one without its ttl attribute,
\* one whose recoveryScore is out of range
ForeignItems ==
    {[userId |-> "u1", recordId |-> range_key(Today), date |-> Today,
      computedAt |-> StoreClock],
     [userId |-> "u1", recordId |-> range_key(RangeStart), date |-> RangeStart,
      computedAt |-> StoreClock, ttl |-> StoreClock,
      recoveryScore |-> RatOf(150)]}

StartDates == {None, Some(RangeStart)}

EndDates == {None, Some(RangeStart)}

\* Limit values: refused by the backend, cutting, and the default
Limits == {0, 1, 30}

InitStore ==
    /\ user_id = ""
    /\ date = <<>>
    /\ sleep_data = None
    /\ recovery_data = None
    /\ cycle_data = None
    /\ physiological_data = None
    /\ now = StoreClock
    /\ score = None
    /\ summary = None
    /\ raised = ""
    /\ dynamodb_client \in BOOLEAN
    /\ table \in SUBSET ForeignItems
    /\ call = NoCall
    /\ store_returned = None
    /\ get_returned = None
    /\ sent = <<>>
    /\ tz = UTC
    /\ date_range = None

\* success = analytics_service.store_daily_summary(summary)
StoreCall(s, backend_ok) ==
    LET e == store_daily_summary(dynamodb_client, s, table, backend_ok) IN
    /\ call' = [NoCall EXCEPT !.op = "store", !.summary = Some(s),
                              !.backend_ok = backend_ok]
    /\ raised' = e.raised
    /\ store_returned' = e.returned
    /\ get_returned' = None
    /\ sent' = e.sent
    /\ table' = e.table
    /\ UNCHANGED <<user_id, date, sleep_data, recovery_data, cycle_data,
                   physiological_data, now, score, summary, dynamodb_client,
                   tz, date_range>>

\* summaries = analytics_service.get_daily_summaries(uid, start, end, lim)
GetCall(uid, start, end, lim, backend_ok) ==
    LET e == get_daily_summaries(dynamodb_client, uid, start, end, lim,
                                 tz, now, table, backend_ok) IN
    /\ call' = [op |-> "get", summary |-> None, user_id |-> uid,
                start_date |-> start, end_date |-> end, limit |-> lim,
                backend_ok |-> backend_ok]
    /\ raised' = e.raised
    /\ get_returned' = e.returned
    /\ store_returned' = None
    /\ sent' = e.sent
    /\ UNCHANGED <<user_id, date, sleep_data, recovery_data, cycle_data,
                   physiological_data, now, score, summary, dynamodb_client,
                   table, tz, date_range>>

NextStore ==
    \/ \E s \in StoreSummaries, ok \in BOOLEAN : StoreCall(s, ok)
    \/ \E uid \in Users, start \in StartDates, end \in EndDates,
          lim \in Limits, ok \in BOOLEAN :
          GetCall(uid, start, end, lim, ok)

SpecStore == InitStore /\ [][NextStore]_vars

---------------------------------------------------------------------------
(* Properties of the storage calls (specification SpecStore) *)

StoreCalled == call.op = "store"

GetCalled == call.op = "get"

\* C11: without a configured client, store_daily_summary and
\* get_daily_summaries raise the configuration error to the caller, return
\* nothing (neither False nor an empty list) and send no request
C11_UnconfiguredRaises ==
    ((StoreCalled \/ GetCalled) /\ ~dynamodb_client) =>
        /\ raised = "ValueError"
        /\ store_returned = None
        /\ get_returned = None
        /\ sent = <<>>

C11_Witness == GetCalled /\ ~dynamodb_client /\ raised = "ValueError"

\* the request was sent and the backend carried it out
Completed == sent # <<>> /\ call.backend_ok

\* C12: with a client, store_daily_summary propagates nothing; it returns
\* True exactly when put_item completed without error, and False when
\* put_item failed or the item could not be built (nothing was sent)
C12_StoreReturnsBoolean ==
    (StoreCalled /\ dynamodb_client) =>
        /\ raised = ""
        /\ store_returned \in {Some(TRUE), Some(FALSE)}
        /\ store_returned = Some(TRUE) <=> Completed
        /\ (sent = <<>> \/ ~call.backend_ok) => store_returned = Some(FALSE)

\* the item could not be built: the summary's sleepDuration is infinite
C12_Witness ==
    /\ StoreCalled /\ dynamodb_client
    /\ call.summary[1].sleepDuration = Some(Inf)
    /\ sent = <<>>
    /\ store_returned = Some(FALSE)

\* C13: with a client, get_daily_summaries propagates nothing, and returns
\* the empty list when the query fails
C13_GetReturnsList ==
    (GetCalled /\ dynamodb_client) =>
        /\ raised = ""
        /\ get_returned # None
        /\ (~call.backend_ok \/ (sent # <<>> /\ query_rejected(sent[1])))
               => get_returned = Some(<<>>)

\* the query failed although the table holds a summary of the range
C13_Witness ==
    /\ GetCalled /\ dynamodb_client
    /\ sent # <<>> /\ ~query_rejected(sent[1]) /\ ~call.backend_ok
    /\ convert_items(query(table, sent[1])) # <<>>
    /\ get_returned = Some(<<>>)

\* the request was a query and the backend answered it
Answered ==
    GetCalled /\ dynamodb_client /\ call.backend_ok /\ ~query_rejected(sent[1])

\* the items the backend returned (a get call leaves the table as it was)
C14_Items == query(table, sent[1])

C14_Convertible == SelectSeq(C14_Items, LAMBDA i : item_to_summary(i) # None)

\* C14: when some of the items the query returned cannot be converted,
\* get_daily_summaries returns the summaries of exactly the convertible
\* items, in the backend's order; the others are skipped
C14_SkipsUnconvertible ==
    Answered =>
        get_returned =
            Some([k \in 1..Len(C14_Convertible) |->
                     item_to_summary(C14_Convertible[k])[1]])

\* the backend returned an item that does not convert before one that does
C14_Witness ==
    /\ Answered
    /\ Len(C14_Items) = 2
    /\ item_to_summary(C14_Items[1]) = None
    /\ Len(get_returned[1]) = 1

\* the range the call asks for, defaults filled in
C15_Start == range_key(start_date_used(call.start_date, tz, now))

C15_End == range_key(end_date_used(call.end_date, tz, now))

\* every returned summary is of the user and of the range, and there are at
\* most limit of them
C15_InRange ==
    /\ Len(get_returned[1]) <= call.limit
    /\ \A k \in 1..Len(get_returned[1]) :
          /\ get_returned[1][k].userId = call.user_id
          /\ LexLE(C15_Start, get_returned[1][k].recordId)
          /\ LexLE(get_returned[1][k].recordId, C15_End)

\* the list is ordered by recordId: descending (most recent first) or
\* ascending (oldest first)
C15_Ordered(list, mostRecentFirst) ==
    \A k \in 1..(Len(list) - 1) :
        /\ list[k].recordId # list[k + 1].recordId
        /\ IF mostRecentFirst
           THEN LexLE(list[k + 1].recordId, list[k].recordId)
           ELSE LexLE(list[k].recordId, list[k + 1].recordId)

\* C15 as claimed: at most limit summaries of the user and the range, in the
\* direction the caller asks for with mostRecentFirst.  get_daily_summaries
\* has no such parameter: whichever direction the caller wants, the call and
\* its result are the same, so the result would have to suit both
C15_QueryRangeInGivenDirection ==
    (GetCalled /\ dynamodb_client) =>
        /\ C15_InRange
        /\ \A mostRecentFirst \in BOOLEAN :
               C15_Ordered(get_returned[1], mostRecentFirst)

\* C15 as the code has it: at most limit summaries of the user and the
\* range, always most recent first (descending recordId)
C15_QueryRangeMostRecentFirst ==
    (GetCalled /\ dynamodb_client) =>
        /\ C15_InRange
        /\ C15_Ordered(get_returned[1], TRUE)

\* two summaries returned
C15_Witness ==
    GetCalled /\ dynamodb_client /\ Len(get_returned[1]) = 2

\* at most one item under each key
C16_OneItemPerKey ==
    \A i \in table : \A j \in table : item_key(i) = item_key(j) => i = j

C20_AtMostOneRequest ==
    /\ Len(sent) <= 1
    /\ StoreCalled => \A k \in 1..Len(sent) : sent[k].op = "put_item"
    /\ GetCalled => \A k \in 1..Len(sent) : sent[k].op = "query"

\* a put_item that failed
C20_Witness ==
    StoreCalled /\ dynamodb_client /\ ~call.backend_ok /\ Len(sent) = 1

---------------------------------------------------------------------------
(* The record id (specification Spec) *)

\* C18: a summary that compute_daily_summary returns has the date it was
\* given and the recordId "summary#" followed by that date, so the sort key
\* store_daily_summary writes for it is the bound get_daily_summaries puts
\* in its query for start_date = end_date = that date
C18_RecordIdIsRangeBound ==
    Returned =>
        LET s   == summary[1]
            req == QueryRequest(user_id, date, date, 30)
        IN  /\ s.date = date
            /\ s.recordId = <<"s", "u", "m", "m", "a", "r", "y", "#">> \o date
            /\ store_item(s).recordId = req.start
            /\ store_item(s).recordId = req.end

\* a summary returned for a date that is not zero padded
C18_Witness == Returned /\ Len(date) = 8

---------------------------------------------------------------------------
(* get_date_range_for_summary *)

\* the local zones of the scenario, with their rules for 2024
NewYork ==
    [std |-> -(5 * 60 * 60), dst |-> -(4 * 60 * 60),
     dst_start |-> 1710054000, dst_end |-> 1730613600]

Berlin ==
    [std |-> 60 * 60, dst |-> 2 * 60 * 60,
     dst_start |-> 1711846800, dst_end |-> 1729990800]

Zones == {UTC, NewYork, Berlin}

\* datetime.timestamp() of a naive datetime: the instant at which the local
\* clock of the zone shows wall (seconds since 1970-01-01 00:00 on that clock)
timestamp(zone, wall) ==
    IF utcoffset(zone, wall - zone.std) = zone.std
    THEN wall - zone.std
    ELSE wall - zone.dst

\* int(seconds * 1000): milliseconds, too wide for one machine integer of
\* the checker, as <<millions, rest>> (millions * 10^6 + rest)
int_ms(seconds) == <<seconds \div 1000, (seconds % 1000) * 1000>>

\* a - b for two such values
MsDiff(a, b) == (a[1] - b[1]) * 1000000 + (a[2] - b[2])

\* what the call returns (value: <<start_of_day, end_of_day>>) or propagates
get_date_range_for_summary(zone, date_str) ==
    LET parsed == strptime(date_str) IN
    IF parsed = None
    THEN [value |-> None, raised |-> "ValueError"]
    ELSE LET midnight == days_of_ymd(parsed[1]) * SecPerDay
             start_of_day == int_ms(timestamp(zone, midnight))
             end_of_day == int_ms(timestamp(zone, midnight + SecPerDay))
         IN  [value |-> Some(<<start_of_day, end_of_day>>), raised |-> ""]

\* date strings: the days of the months in which the zones change their
\* offset, of February, and of no month
RangeDates ==
    {strftime(<<2024, m, d>>) : m \in {2, 3, 10, 11}, d \in 1..31}

InitRange ==
    /\ user_id = ""
    /\ date \in RangeDates
    /\ sleep_data = None
    /\ recovery_data = None
    /\ cycle_data = None
    /\ physiological_data = None
    /\ now = StoreClock
    /\ score = None
    /\ summary = None
    /\ raised = ""
    /\ dynamodb_client = FALSE
    /\ table = {}
    /\ call = NoCall
    /\ store_returned = None
    /\ get_returned = None
    /\ sent = <<>>
    /\ tz \in Zones
    /\ date_range = None

\* start_ms, end_ms = analytics_service.get_date_range_for_summary(date)
RangeCall ==
    LET r == get_date_range_for_summary(tz, date) IN
    /\ date_range = None /\ raised = ""
    /\ date_range' = r.value
    /\ raised' = r.raised
    /\ UNCHANGED <<user_id, date, sleep_data, recovery_data, cycle_data,
                   physiological_data, now, score, summary, dynamodb_client,
                   table, call, store_returned, get_returned, sent, tz>>

NextRange == RangeCall

SpecRange == InitRange /\ [][NextRange]_vars

\* C19: for every valid date, get_date_range_for_summary returns a range of
\* exactly 24 * 60 * 60 * 1000 ms that begins at the start of that day in
\* local time, also on the days the local UTC offset changes
C19_RangeIs24Hours ==
    date_range # None =>
        /\ date_range[1][1] =
               int_ms(timestamp(tz, days_of_ymd(strptime(date)[1]) * SecPerDay))
        /\ MsDiff(date_range[1][2], date_range[1][1]) = 24 * 60 * 60 * 1000

---------------------------------------------------------------------------
(* The stored metrics (specification SpecStore) *)

\* floor(x * 100) / 100 of the exact value of the float x
C17_Truncated(x) ==
    IF IsDouble(x)
    THEN Norm(BigToInt(BigShiftRight(BigMulSmall(x[2], 100, 0), -x[3])), 100)
    ELSE Norm((x[1] * 100) \div x[2], 100)

\* C17: in the item store_daily_summary writes, every metric the summary
\* carries is the summary's value truncated toward zero to 2 decimals
\* (floor(x * 100) / 100), never more than it; a metric the summary lacks has
\* no key; userId, recordId, date, computedAt and ttl are the summary's
C17_StoredMetricsTruncated ==
    (StoreCalled /\ sent # <<>>) =>
        LET s    == call.summary[1]
            item == sent[1].Item
        IN  /\ \A m \in MetricNames :
                  IF s[m] = None THEN m \notin DOMAIN item
                  ELSE m \in DOMAIN item /\ item[m] = C17_Truncated(s[m][1])
            /\ item.userId = s.userId
            /\ item.recordId = s.recordId
            /\ item.date = s.date
            /\ item.computedAt = s.computedAt
            /\ item.ttl = s.ttl

---------------------------------------------------------------------------
(* The round trip through the stored item (specification SpecStore) *)

\* C21: the item store_daily_summary writes for a computed summary S
\* converts back with _item_to_summary to a summary that has S's userId,
\* recordId, date, computedAt, ttl and completeness flags, lacks exactly the
\* metrics S lacks (a present 0 stays present), and has every other metric at
\* S's value truncated to 2 decimals
C21_RoundTrip ==
    (StoreCalled /\ sent # <<>>) =>
        LET s    == call.summary[1]
            back == item_to_summary(sent[1].Item)
        IN  /\ back # None
            /\ back[1].userId = s.userId
            /\ back[1].recordId = s.recordId
            /\ back[1].date = s.date
            /\ back[1].computedAt = s.computedAt
            /\ back[1].ttl = s.ttl
            /\ back[1].dataCompleteness = s.dataCompleteness
            /\ \A m \in MetricNames :
                  back[1][m] = IF s[m] = None THEN None
                               ELSE Some(C17_Truncated(s[m][1]))

=============================================================================
